---- MODULE Spec2Model ----
(***************************************************************************)
(* A model of the pipeline driver go() of main.py: the configuration it    *)
(* reads, the environment variables and the training-config file it        *)
(* writes, and the six mlflow.run sub-process launches it performs.        *)
(***************************************************************************)
EXTENDS Integers, Sequences, FiniteSets, TLC

VARIABLES
    config,            \* the DictConfig handed to go() by hydra
    pc,                \* position of go() in main.py
    environ,           \* os.environ restricted to the two WANDB_* variables
    root_path,         \* local variable root_path
    steps_to_execute,  \* local variable steps_to_execute
    calls,             \* the mlflow.run invocations made so far, in order
    child,             \* the step whose sub-process is running ("" when none)
    exits,             \* number of sub-processes of this run that have ended
    fs,                \* the filesystem: path -> file content
    artifacts,         \* artifact names logged by the completed steps of this run
    error,             \* the exception that ended go() ("" when none)
    env_writes,        \* number of assignments to each WANDB_* variable in this run
    file_writes,       \* number of times this run opened the config file for writing
    finished           \* records of the earlier runs of go() (other processes)

vars == <<config, pc, environ, root_path, steps_to_execute, calls, child, exits, fs,
          artifacts, error, env_writes, file_writes, finished>>

----------------------------------------------------------------------------
(* Bounds of the model.                                                    *)

\* longest native list of step names given as the selector
MaxList == 2
\* longest selector string, counted in pieces (a name fragment or a comma)
MaxStr == 3
\* largest integer a configuration value takes
MaxInt == 42

----------------------------------------------------------------------------
(* Values.  Every leaf of the configuration and every parameter value is a *)
(* typed scalar; a mapping is a function from its keys.                    *)

StrV(x) == [t |-> "str", i |-> 0, s |-> x]
IntV(n) == [t |-> "int", i |-> n, s |-> ""]
\* a float, held in hundredths
FloatV(hundredths) == [t |-> "float", i |-> hundredths, s |-> ""]
BoolV(b) == [t |-> "bool", i |-> IF b THEN 1 ELSE 0, s |-> ""]
NullV == [t |-> "null", i |-> 0, s |-> ""]
\* the value of an expression that raised on a missing key k
KeyError(k) == [t |-> "KeyError", i |-> 0, s |-> k]

IsScalar(v) == "t" \in DOMAIN v
IsError(v) == IsScalar(v) /\ v.t = "KeyError"

\* m[k] on a DictConfig in struct mode: a missing key raises, and an
\* exception raised by the receiver expression propagates
Get(m, k) ==
    IF IsError(m) THEN m
    ELSE IF IsScalar(m) \/ k \notin DOMAIN m THEN KeyError(k)
    ELSE m[k]

Range(f) == {f[x] : x \in DOMAIN f}

SeqsUpTo(S, n) == UNION {[1..k -> S] : k \in 0..n}

----------------------------------------------------------------------------
(* Strings.  A Python str is a sequence of pieces, each piece the          *)
(* separator "," or a comma-free fragment; a fragment is a TLA+ string.    *)

Sep == ","

\* str.split(","): the comma-free runs of s, empty runs included
RECURSIVE SplitFrom(_, _, _)
SplitFrom(s, i, cur) ==
    IF i > Len(s) THEN <<cur>>
    ELSE IF s[i] = Sep THEN <<cur>> \o SplitFrom(s, i + 1, "")
    ELSE SplitFrom(s, i + 1, cur \o s[i])

\* str.split() without the separator argument: a string without
\* whitespace stays one piece
RECURSIVE Whole(_)
Whole(s) == IF s = <<>> THEN "" ELSE Head(s) \o Whole(Tail(s))
split_whole(s) == <<Whole(s)>>

split(s) == SplitFrom(s, 1, "")

\* ",".join(names): how a list of names is written on the command line
RECURSIVE join(_)
join(names) ==
    IF names = <<>> THEN <<>>
    ELSE IF Len(names) = 1 THEN <<names[1]>>
    ELSE <<names[1], Sep>> \o join(Tail(names))

DigitText(d) ==
    CASE d = 0 -> "0" [] d = 1 -> "1" [] d = 2 -> "2" [] d = 3 -> "3"
      [] d = 4 -> "4" [] d = 5 -> "5" [] d = 6 -> "6" [] d = 7 -> "7"
      [] d = 8 -> "8" [] d = 9 -> "9"

\* the decimal text of a natural number
RECURSIVE IntText(_)
IntText(n) == IF n < 10 THEN DigitText(n) ELSE IntText(n \div 10) \o DigitText(n % 10)

\* str(v), as an f-string formats a configuration value
Format(v) ==
    CASE v.t = "str" -> v.s
      [] v.t = "int" -> IntText(v.i)
      [] v.t = "bool" -> IF v.i = 1 THEN "True" ELSE "False"
      [] v.t = "null" -> "None"

----------------------------------------------------------------------------
(* YAML.  A document is a sequence of lines "key: value" or "key:" (a      *)
(* nested mapping follows, one indentation level deeper).                  *)

\* the value a plain (unquoted) YAML scalar resolves to
ResolvePlain(text) ==
    IF text \in {"true", "false"} THEN BoolV(text = "true")
    ELSE IF text \in {"null", "~", ""} THEN NullV
    ELSE IF \E n \in 0..MaxInt : IntText(n) = text
         THEN IntV(CHOOSE n \in 0..MaxInt : IntText(n) = text)
    ELSE StrV(text)

\* a dumper that never quotes a string
ScalarLine_plain(depth, k, v) ==
    [indent |-> depth, key |-> k, map |-> FALSE, style |-> "plain",
     text |-> CASE v.t = "str" -> v.s
                [] v.t = "int" -> IntText(v.i)
                [] v.t = "bool" -> (IF v.i = 1 THEN "true" ELSE "false")
                [] v.t = "null" -> "null"]

\* the YAML scalar written for a value: a string is quoted when its plain
\* form would resolve to something else
ScalarLine(depth, k, v) ==
    [indent |-> depth, key |-> k, map |-> FALSE,
     style |-> IF v.t = "str" /\ ResolvePlain(v.s) # v THEN "quoted" ELSE "plain",
     text |-> CASE v.t = "str" -> v.s
                [] v.t = "int" -> IntText(v.i)
                          [] v.t = "bool" -> (IF v.i = 1 THEN "true" ELSE "false")
                [] v.t = "null" -> "null"]

MapLine(depth, k) ==
    [indent |-> depth, key |-> k, map |-> TRUE, style |-> "", text |-> ""]

\* the keys of the training section, in the order of the configuration file
KeyOrder == <<"random_forest", "n_estimators", "criterion", "max_depth",
              "random_state", "oob_score", "export_artifact">>

RECURSIVE Dump(_, _, _)
Dump(m, keys, depth) ==
    IF keys = <<>> THEN <<>>
    ELSE LET k == Head(keys) IN
         (IF k \notin DOMAIN m THEN <<>>
          ELSE IF IsScalar(m[k]) THEN <<ScalarLine(depth, k, m[k])>>
          ELSE <<MapLine(depth, k)>> \o Dump(m[k], KeyOrder, depth + 1))
         \o Dump(m, Tail(keys), depth)

\* OmegaConf.to_yaml(cfg)
to_yaml(m) == Dump(m, KeyOrder, 0)

ResolveLine(l) == IF l.style = "quoted" THEN StrV(l.text) ELSE ResolvePlain(l.text)

\* yaml.safe_load of the lines at nesting level depth
RECURSIVE Load(_, _)
Load(lines, depth) ==
    LET idx == {i \in 1..Len(lines) : lines[i].indent = depth}
        BlockEnd(i) ==
            LET later == {j \in idx : j > i}
            IN IF later = {} THEN Len(lines)
               ELSE (CHOOSE j \in later : \A j2 \in later : j <= j2) - 1
    IN [k \in {lines[i].key : i \in idx} |->
          LET at == CHOOSE i \in idx : lines[i].key = k /\
                        \A i2 \in idx : lines[i2].key = k => i2 <= i
          IN IF lines[at].map THEN Load(SubSeq(lines, at + 1, BlockEnd(at)), depth + 1)
             ELSE ResolveLine(lines[at])]

safe_load(lines) == Load(lines, 0)

----------------------------------------------------------------------------
(* The configurations go() is started with.                                *)

\* the six step names, in the order go() tests them
StepOrder == <<"download", "preprocess", "check_data", "segregate",
               "random_forest", "evaluate">>
Steps == Range(StepOrder)

\* tokens a selector is made of: the step names and names that are none
Tokens == Steps \cup {"bogus_step", ""}
\* pieces a selector string is made of
Pieces == Steps \cup {"bogus_step", Sep}

Reverse(q) == [i \in 1..Len(q) |-> q[Len(q) + 1 - i]]

StrSel(pieces) == [type |-> "str", val |-> pieces]
ListSel(items) == [type |-> "list", val |-> items]
\* a selector that is neither a str nor a ListConfig
IntSel == [type |-> "int", val |-> <<>>]

Selectors ==
    {StrSel(q) : q \in SeqsUpTo(Pieces, MaxStr)}
    \cup {ListSel(q) : q \in SeqsUpTo(Tokens, MaxList)}
    \cup {StrSel(join(StepOrder)), ListSel(StepOrder),
          StrSel(join(Reverse(StepOrder))), ListSel(Reverse(StepOrder)), IntSel}

MainA(sel) ==
    [project_name |-> StrV("genre_classification"), experiment_name |-> StrV("dev"),
     execute_steps |-> sel, random_seed |-> IntV(42)]
MainB(sel) ==
    [project_name |-> StrV("exercise"), experiment_name |-> StrV("prod"),
     execute_steps |-> sel, random_seed |-> IntV(7)]

DataA ==
    [file_url |-> StrV("https://host/genres_mod.parquet"),
     reference_dataset |-> StrV("genre_classification/preprocessed_data.csv:latest"),
     ks_alpha |-> FloatV(5), test_size |-> FloatV(20), val_size |-> FloatV(30),
     stratify |-> StrV("genre")]
DataB ==
    [file_url |-> StrV("https://host/genres_v2.parquet"),
     reference_dataset |-> StrV("genre_classification/preprocessed_data.csv:v1"),
     ks_alpha |-> FloatV(1), test_size |-> FloatV(30), val_size |-> FloatV(20),
     stratify |-> NullV]

TrainA ==
    [random_forest |-> [n_estimators |-> IntV(10), criterion |-> StrV("gini"),
                        max_depth |-> IntV(13), random_state |-> IntV(42),
                        oob_score |-> BoolV(TRUE)],
     export_artifact |-> StrV("model_export")]
TrainB ==
    [random_forest |-> [n_estimators |-> IntV(0), criterion |-> StrV("true"),
                        max_depth |-> NullV, random_state |-> IntV(0),
                        oob_score |-> BoolV(FALSE)],
     export_artifact |-> StrV("42")]
TrainC ==
    [random_forest |-> [criterion |-> StrV("null"), random_state |-> IntV(7)],
     export_artifact |-> StrV("")]

\* the mapping m without the key at path
RECURSIVE Without(_, _)
Without(m, path) ==
    IF Len(path) = 1 THEN [k \in DOMAIN m \ {path[1]} |-> m[k]]
    ELSE [k \in DOMAIN m |-> IF k = path[1] THEN Without(m[k], Tail(path)) ELSE m[k]]

MissingPaths ==
    {<<"main", "project_name">>, <<"main", "experiment_name">>,
     <<"main", "execute_steps">>, <<"main", "random_seed">>,
     <<"data">>, <<"data", "file_url">>, <<"data", "reference_dataset">>,
     <<"data", "ks_alpha">>, <<"data", "test_size">>, <<"data", "val_size">>,
     <<"data", "stratify">>,
     <<"random_forest_pipeline">>, <<"random_forest_pipeline", "random_forest">>,
     <<"random_forest_pipeline", "random_forest", "random_state">>,
     <<"random_forest_pipeline", "export_artifact">>}

DefaultConfig(sel) ==
    [main |-> MainA(sel), data |-> DataA, random_forest_pipeline |-> TrainA]

\* configurations with every key present
FullConfigs ==
    {[main |-> m, data |-> d, random_forest_pipeline |-> r] :
        m \in UNION {{MainA(sel), MainB(sel)} : sel \in Selectors},
        d \in {DataA, DataB}, r \in {TrainA, TrainB, TrainC}}

\* configurations with one key missing
BrokenConfigs ==
    {Without(DefaultConfig(sel), p) : sel \in Selectors, p \in MissingPaths}

\* the configurations go() is started with
Configs == FullConfigs \cup BrokenConfigs

\* lists of names, and the configurations that give such a list as a string
NameLists == SeqsUpTo(Tokens, MaxList) \cup {StepOrder, Reverse(StepOrder)}
JoinedSelectors == {StrSel(join(names)) : names \in NameLists}

JoinedFullConfigs ==
    {[main |-> m, data |-> d, random_forest_pipeline |-> r] :
        m \in UNION {{MainA(sel), MainB(sel)} : sel \in JoinedSelectors},
        d \in {DataA, DataB}, r \in {TrainA, TrainB, TrainC}}

JoinedBrokenConfigs ==
    {Without(DefaultConfig(sel), p) : sel \in JoinedSelectors, p \in MissingPaths}

JoinedConfigs == JoinedFullConfigs \cup JoinedBrokenConfigs

----------------------------------------------------------------------------
(* The process environment go() runs in.                                   *)

\* hydra.utils.get_original_cwd(): the directory the program was started in
OriginalCwd == "/repo"
\* the working directory hydra changed to for this run
Cwd == "/repo/outputs/run"

\* os.path.join(a, b) for a relative b
path_join(a, b) == a \o "/" \o b
\* os.path.abspath(name) for a relative name
abspath(name) == path_join(Cwd, name)

NoFiles == [p \in {} |-> <<>>]
NoEnv == [v \in {} |-> ""]

\* f with x mapped to y
Put(f, x, y) == [z \in DOMAIN f \cup {x} |-> IF z = x THEN y ELSE f[z]]

\* the state of a process that has just entered go()
Entry ==
    /\ pc = "env_project"
    /\ environ = NoEnv
    /\ root_path = ""
    /\ steps_to_execute = <<>>
    /\ calls = <<>>
    /\ child = ""
    /\ exits = 0
    /\ artifacts = {}
    /\ error = ""
    /\ env_writes = [v \in {"WANDB_PROJECT", "WANDB_RUN_GROUP"} |-> 0]
    /\ file_writes = 0

Init ==
    /\ config \in Configs
    /\ Entry
    /\ fs = NoFiles
    /\ finished = <<>>

\* an exception leaves go(): nothing catches it
Raise(e) ==
    /\ pc' = "failed"
    /\ error' = e

\* os.environ["WANDB_PROJECT"] = config["main"]["project_name"]
SetProject ==
    /\ pc = "env_project"
    /\ LET v == Get(Get(config, "main"), "project_name") IN
       IF IsError(v)
       THEN Raise("KeyError") /\ UNCHANGED <<environ, env_writes>>
       ELSE /\ environ' = Put(environ, "WANDB_PROJECT", v.s)
            /\ env_writes' = [env_writes EXCEPT !["WANDB_PROJECT"] = @ + 1]
            /\ pc' = "env_group"
            /\ UNCHANGED error
    /\ UNCHANGED <<config, root_path, steps_to_execute, calls, child, exits, fs, artifacts,
                   file_writes, finished>>

\* the run group set from the project name
SetRunGroup_project ==
    /\ pc = "env_group"
    /\ LET v == Get(Get(config, "main"), "project_name") IN
       IF IsError(v)
       THEN Raise("KeyError") /\ UNCHANGED <<environ, env_writes>>
       ELSE /\ environ' = Put(environ, "WANDB_RUN_GROUP", v.s)
            /\ env_writes' = [env_writes EXCEPT !["WANDB_RUN_GROUP"] = @ + 1]
            /\ pc' = "root"
            /\ UNCHANGED error
    /\ UNCHANGED <<config, root_path, steps_to_execute, calls, child, exits, fs, artifacts,
                   file_writes, finished>>

\* os.environ["WANDB_RUN_GROUP"] = config["main"]["experiment_name"]
SetRunGroup ==
    /\ pc = "env_group"
    /\ LET v == Get(Get(config, "main"), "experiment_name") IN
       IF IsError(v)
       THEN Raise("KeyError") /\ UNCHANGED <<environ, env_writes>>
       ELSE /\ environ' = Put(environ, "WANDB_RUN_GROUP", v.s)
            /\ env_writes' = [env_writes EXCEPT !["WANDB_RUN_GROUP"] = @ + 1]
            /\ pc' = "root"
            /\ UNCHANGED error
    /\ UNCHANGED <<config, root_path, steps_to_execute, calls, child, exits, fs, artifacts,
                   file_writes, finished>>

\* root_path = hydra.utils.get_original_cwd()
GetRoot ==
    /\ pc = "root"
    /\ root_path' = OriginalCwd
    /\ pc' = "select"
    /\ UNCHANGED <<config, environ, steps_to_execute, calls, child, exits, fs, artifacts,
                   error, env_writes, file_writes, finished>>

\* the if/else that turns config["main"]["execute_steps"] into steps_to_execute
SelectSteps ==
    /\ pc = "select"
    /\ LET sel == Get(Get(config, "main"), "execute_steps") IN
       IF IsError(sel)
       THEN Raise("KeyError") /\ UNCHANGED steps_to_execute
       ELSE IF sel.type = "str"
       THEN steps_to_execute' = split(sel.val) /\ pc' = "download" /\ UNCHANGED error
       ELSE IF sel.type # "list"
       THEN Raise("AssertionError") /\ UNCHANGED steps_to_execute
       ELSE steps_to_execute' = sel.val /\ pc' = "download" /\ UNCHANGED error
    /\ UNCHANGED <<config, environ, root_path, calls, child, exits, fs, artifacts,
                   env_writes, file_writes, finished>>

----------------------------------------------------------------------------
(* The six steps.                                                          *)

\* a membership test that looks at the first name only
Selected_first(step) == steps_to_execute # <<>> /\ steps_to_execute[1] = step

Selected(step) == step \in Range(steps_to_execute)

\* f"{v}:latest"
Latest(v) == IF IsError(v) THEN v ELSE StrV(Format(v) \o ":latest")

\* a configuration whose missing keys read as values instead of raising
Raises_never(parameters) == FALSE

Raises(parameters) == \E k \in DOMAIN parameters : IsError(parameters[k])

\* mlflow.run(os.path.join(root_path, step), "main", parameters=...): building
\* the arguments raises on a missing key; otherwise the sub-process starts and
\* go() blocks on it
mlflow_run(step, parameters) ==
    IF Raises(parameters)
    THEN Raise("KeyError") /\ UNCHANGED <<calls, child>>
    ELSE /\ calls' = Append(calls, [step |-> step,
                                    uri |-> path_join(root_path, step),
                                    entry_point |-> "main",
                                    parameters |-> parameters,
                                    env |-> environ,
                                    files |-> fs,
                                    avail |-> artifacts])
         /\ child' = step
         /\ UNCHANGED <<pc, error>>

\* one "if <step> in steps_to_execute:" block whose body is a single mlflow.run
StepBlock(step, next, parameters) ==
    /\ child = ""
    /\ IF Selected(step)
       THEN mlflow_run(step, parameters)
       ELSE pc' = next /\ UNCHANGED <<calls, child, error>>
    /\ UNCHANGED <<config, environ, root_path, steps_to_execute, exits, fs, artifacts,
                   env_writes, file_writes, finished>>

DownloadParameters ==
    [file_url |-> Get(Get(config, "data"), "file_url"),
     artifact_name |-> StrV("raw_data.parquet"),
     artifact_type |-> StrV("raw_data"),
     artifact_description |-> StrV("Data as downloaded")]

Download ==
    /\ pc = "download"
    /\ StepBlock("download", "preprocess", DownloadParameters)

PreprocessParameters ==
    [input_artifact |-> StrV("raw_data.parquet:latest"),
     artifact_name |-> StrV("preprocessed_data.csv"),
     artifact_type |-> StrV("preprocessed_data"),
     artifact_description |-> StrV("Data after preprocessing")]

Preprocess ==
    /\ pc = "preprocess"
    /\ StepBlock("preprocess", "check_data", PreprocessParameters)

CheckDataParameters ==
    [reference_artifact |-> Get(Get(config, "data"), "reference_dataset"),
     sample_artifact |-> StrV("preprocessed_data.csv:latest"),
     ks_alpha |-> Get(Get(config, "data"), "ks_alpha")]

CheckData ==
    /\ pc = "check_data"
    /\ StepBlock("check_data", "segregate", CheckDataParameters)

\* the split seeded with the pipeline's seed instead of the model's
SegregateParameters_seed ==
    [input_artifact |-> StrV("preprocessed_data.csv:latest"),
     artifact_root |-> StrV("data"),
     artifact_type |-> StrV("segregated_data"),
     test_size |-> Get(Get(config, "data"), "test_size"),
     random_state |-> Get(Get(config, "main"), "random_seed"),
     stratify |-> Get(Get(config, "data"), "stratify")]

SegregateParameters ==
    [input_artifact |-> StrV("preprocessed_data.csv:latest"),
     artifact_root |-> StrV("data"),
     artifact_type |-> StrV("segregated_data"),
     test_size |-> Get(Get(config, "data"), "test_size"),
     random_state |-> Get(Get(Get(config, "random_forest_pipeline"), "random_forest"),
                          "random_state"),
     stratify |-> Get(Get(config, "data"), "stratify")]

Segregate ==
    /\ pc = "segregate"
    /\ StepBlock("segregate", "random_forest", SegregateParameters)

\* model_config = os.path.abspath("random_forest_config.yml")
model_config == abspath("random_forest_config.yml")

\* the failure of open() caught and reported, go() carrying on
OpenFailure_swallowed ==
    /\ error' = "OSError"
    /\ pc' = "random_forest_run"
    /\ UNCHANGED <<fs, file_writes>>

\* open(model_config, "w+") raises: the file is left as it was
OpenFailure == Raise("OSError") /\ UNCHANGED <<fs, file_writes>>

\* the first half of the random_forest block: open(model_config, "w+") and
\* fp.write(OmegaConf.to_yaml(config["random_forest_pipeline"])).  The open
\* can fail (the file is left as it was); once it succeeds the file is
\* truncated, and the configuration access or the write can still fail.
WriteModelConfig ==
    /\ pc = "random_forest"
    /\ child = ""
    /\ IF ~Selected("random_forest")
       THEN pc' = "evaluate" /\ UNCHANGED <<fs, file_writes, error>>
       ELSE \E outcome \in {"open_fails", "write_fails", "written"} :
              IF outcome = "open_fails"
              THEN OpenFailure
              ELSE /\ file_writes' = file_writes + 1
                   /\ LET section == Get(config, "random_forest_pipeline") IN
                      IF IsError(section)
                      THEN Raise("KeyError") /\ fs' = Put(fs, model_config, <<>>)
                      ELSE IF outcome = "write_fails"
                      THEN Raise("OSError") /\ fs' = Put(fs, model_config, <<>>)
                      ELSE /\ fs' = Put(fs, model_config, to_yaml(section))
                           /\ pc' = "random_forest_run"
                           /\ UNCHANGED error
    /\ UNCHANGED <<config, environ, root_path, steps_to_execute, calls, child,
                   exits, artifacts, env_writes, finished>>

RandomForestParameters ==
    [train_data |-> StrV("data_train.csv:latest"),
     model_config |-> StrV(model_config),
     export_artifact |-> Get(Get(config, "random_forest_pipeline"), "export_artifact"),
     random_seed |-> Get(Get(config, "main"), "random_seed"),
     val_size |-> Get(Get(config, "data"), "val_size"),
     stratify |-> Get(Get(config, "data"), "stratify")]

\* the second half of the random_forest block: the mlflow.run
RandomForest ==
    /\ pc = "random_forest_run"
    /\ child = ""
    /\ mlflow_run("random_forest", RandomForestParameters)
    /\ UNCHANGED <<config, environ, root_path, steps_to_execute, exits, fs, artifacts,
                   env_writes, file_writes, finished>>

\* the test data named after the artifact type instead of the artifact root
EvaluateParameters_type ==
    [model_export |-> Latest(Get(Get(config, "random_forest_pipeline"),
                                 "export_artifact")),
     test_data |-> StrV("segregated_data_test.csv:latest")]

EvaluateParameters ==
    [model_export |-> Latest(Get(Get(config, "random_forest_pipeline"),
                                 "export_artifact")),
     test_data |-> StrV("data_test.csv:latest")]

Evaluate ==
    /\ pc = "evaluate"
    /\ StepBlock("evaluate", "done", EvaluateParameters)

\* the preprocess block lost: go() continues at check_data after download
After_skip(step) ==
    CASE step = "download" -> "check_data"
      [] step = "preprocess" -> "check_data"
      [] step = "check_data" -> "segregate"
      [] step = "segregate" -> "random_forest"
      [] step = "random_forest" -> "evaluate"
      [] step = "evaluate" -> "done"

\* where go() continues when the sub-process of step has returned
After(step) ==
    CASE step = "download" -> "preprocess"
      [] step = "preprocess" -> "check_data"
      [] step = "check_data" -> "segregate"
      [] step = "segregate" -> "random_forest"
      [] step = "random_forest" -> "evaluate"
      [] step = "evaluate" -> "done"

\* the artifacts a step logs when it succeeds, from the names it was given
Produces(call) ==
    CASE call.step \in {"download", "preprocess"} ->
            {Format(call.parameters.artifact_name)}
      [] call.step = "segregate" ->
            {Format(call.parameters.artifact_root) \o "_train.csv",
             Format(call.parameters.artifact_root) \o "_test.csv"}
      [] call.step = "random_forest" ->
            {Format(call.parameters.export_artifact)}
      [] OTHER -> {}

\* the failure of a step reported but not propagated
ChildExits_continue ==
    /\ child # ""
    /\ \E ok \in BOOLEAN :
         /\ pc' = After(child)
         /\ IF ok
            THEN artifacts' = artifacts \cup Produces(calls[Len(calls)]) /\ UNCHANGED error
            ELSE error' = "ExecutionException" /\ UNCHANGED artifacts
    /\ child' = ""
    /\ exits' = exits + 1
    /\ UNCHANGED <<config, environ, root_path, steps_to_execute, calls, fs,
                   env_writes, file_writes, finished>>

\* the sub-process ends: mlflow.run returns, or raises when the step failed
ChildExits ==
    /\ child # ""
    /\ \E ok \in BOOLEAN :
         IF ok
         THEN /\ artifacts' = artifacts \cup Produces(calls[Len(calls)])
              /\ pc' = After(child)
              /\ UNCHANGED error
         ELSE Raise("ExecutionException") /\ UNCHANGED artifacts
    /\ child' = ""
    /\ exits' = exits + 1
    /\ UNCHANGED <<config, environ, root_path, steps_to_execute, calls, fs,
                   env_writes, file_writes, finished>>

Next ==
    \/ SetProject
    \/ SetRunGroup
    \/ GetRoot
    \/ SelectSteps
    \/ Download
    \/ Preprocess
    \/ CheckData
    \/ Segregate
    \/ WriteModelConfig
    \/ RandomForest
    \/ Evaluate
    \/ ChildExits

Spec == Init /\ [][Next]_vars

----------------------------------------------------------------------------
(* The same pipeline started twice: first with the step names given as a   *)
(* comma-separated string, then, in a new process on the same filesystem,  *)
(* with the same names given as a native list.                             *)

InitJoined ==
    /\ config \in JoinedConfigs
    /\ Entry
    /\ fs = NoFiles
    /\ finished = <<>>

\* go() has ended; the program is started again with the list form of the
\* selector and an otherwise equal configuration
Relaunch ==
    /\ pc \in {"done", "failed"}
    /\ finished = <<>>
    /\ "execute_steps" \in DOMAIN config.main
    /\ config.main.execute_steps.type = "str"
    /\ \E names \in NameLists :
         /\ join(names) = config.main.execute_steps.val
         /\ config' = [config EXCEPT !.main.execute_steps = ListSel(names)]
    /\ finished' = <<[config |-> config, pc |-> pc, error |-> error,
                      calls |-> calls, fs |-> fs]>>
    /\ pc' = "env_project"
    /\ environ' = NoEnv
    /\ root_path' = ""
    /\ steps_to_execute' = <<>>
    /\ calls' = <<>>
    /\ child' = ""
    /\ exits' = 0
    /\ artifacts' = {}
    /\ error' = ""
    /\ env_writes' = [v \in {"WANDB_PROJECT", "WANDB_RUN_GROUP"} |-> 0]
    /\ file_writes' = 0
    /\ UNCHANGED fs

NextJoined == Next \/ Relaunch

SpecJoined == InitJoined /\ [][NextJoined]_vars

----------------------------------------------------------------------------
(* Vocabulary of the properties.                                           *)

\* the value at a path of keys
RECURSIVE GetPath(_, _)
GetPath(m, path) ==
    IF path = <<>> THEN m ELSE GetPath(Get(m, Head(path)), Tail(path))

Missing(path) == IsError(GetPath(config, path))

\* name n is an element of the selector sel.  In a string, an element is a
\* piece standing alone between separators: no two pieces of the alphabet
\* concatenate to a step name.
ElementOf(n, sel) ==
    CASE sel.type = "list" -> n \in Range(sel.val)
      [] sel.type = "str" ->
            \E i \in 1..Len(sel.val) :
                /\ sel.val[i] = n
                /\ i = 1 \/ sel.val[i - 1] = Sep
                /\ i = Len(sel.val) \/ sel.val[i + 1] = Sep
      [] OTHER -> FALSE

Requested(n) ==
    /\ "execute_steps" \in DOMAIN config.main
    /\ ElementOf(n, config.main.execute_steps)

Count(n) == Cardinality({i \in 1..Len(calls) : calls[i].step = n})

Index(n) == CHOOSE i \in 1..Len(StepOrder) : StepOrder[i] = n

CallSteps == [i \in 1..Len(calls) |-> calls[i].step]

\* go() has ended with an exception and does nothing more
Terminated == pc = "failed" /\ child = "" /\ ~ENABLED Next

\* the configuration keys a step's block reads
Needs(step) ==
    CASE step = "download" -> {<<"data", "file_url">>}
      [] step = "preprocess" -> {}
      [] step = "check_data" -> {<<"data", "reference_dataset">>, <<"data", "ks_alpha">>}
      [] step = "segregate" ->
            {<<"data", "test_size">>, <<"data", "stratify">>,
             <<"random_forest_pipeline", "random_forest", "random_state">>}
      [] step = "random_forest" ->
            {<<"random_forest_pipeline">>, <<"random_forest_pipeline", "export_artifact">>,
             <<"main", "random_seed">>, <<"data", "val_size">>, <<"data", "stratify">>}
      [] step = "evaluate" -> {<<"random_forest_pipeline", "export_artifact">>}

\* every selected step that precedes step f in the fixed order was invoked
\* once, and no other step was invoked
RanUpTo(f) ==
    \A n \in Steps :
        Count(n) = IF Requested(n) /\ Index(n) < Index(f) THEN 1 ELSE 0

\* every selected step up to and including step f was invoked once, and no
\* other step was invoked
RanThrough(f) ==
    \A n \in Steps :
        Count(n) = IF Requested(n) /\ Index(n) <= Index(f) THEN 1 ELSE 0

----------------------------------------------------------------------------
(* C1: in a run of go() that completes, each of the six steps was invoked  *)
(* exactly once if its name is an element of the selector and not at all   *)
(* otherwise, duplicates in the selector included; in every state a step   *)
(* that is not an element has not been invoked and no step has been        *)
(* invoked twice; a token that is none of the six names invokes nothing    *)
(* and raises nothing (a configuration error comes only from a missing key *)
(* or a selector of the wrong type).                                       *)
C1_SelectedStepsOnce ==
    /\ \A i \in 1..Len(calls) : calls[i].step \in Steps
    /\ \A n \in Steps : Count(n) <= 1 /\ (Count(n) = 1 => Requested(n))
    /\ pc = "done" => \A n \in Steps : Count(n) = IF Requested(n) THEN 1 ELSE 0
    /\ error = "AssertionError" => config.main.execute_steps.type \notin {"str", "list"}
    /\ error = "KeyError" => \E path \in MissingPaths : Missing(path)

C1_Witness ==
    /\ pc = "done"
    /\ config.main.execute_steps = StrSel(<<"evaluate", Sep, "evaluate">>)
    /\ CallSteps = <<"evaluate">>

C1_WitnessBogus ==
    /\ pc = "done"
    /\ config.main.execute_steps = StrSel(<<"bogus_step">>)
    /\ calls = <<>>

(* C2: the invocations follow the fixed order whatever the order of the     *)
(* names in the selector, at most one sub-process runs at a time and every  *)
(* earlier one has ended when the next starts, and "download,preprocess"    *)
(* yields exactly download then preprocess, preprocess receiving            *)
(* input_artifact = "raw_data.parquet:latest".                              *)
C2_FixedOrderSequential ==
    /\ \A i, j \in 1..Len(calls) : i < j => Index(calls[i].step) < Index(calls[j].step)
    /\ Len(calls) = exits + (IF child = "" THEN 0 ELSE 1)
    /\ child # "" => child = calls[Len(calls)].step
    /\ (pc = "done" /\ config.main.execute_steps = StrSel(<<"download", Sep, "preprocess">>))
         => /\ CallSteps = <<"download", "preprocess">>
            /\ calls[2].parameters.input_artifact = StrV("raw_data.parquet:latest")

C2_Witness ==
    /\ pc = "done"
    /\ config.main.execute_steps = ListSel(<<"preprocess", "download">>)
    /\ CallSteps = <<"download", "preprocess">>
    /\ exits = 2

\* what go() passed to mlflow.run
Invocation(call) ==
    [step |-> call.step, uri |-> call.uri, entry_point |-> call.entry_point,
     parameters |-> call.parameters, env |-> call.env]

Invocations(cs) == [i \in 1..Len(cs) |-> Invocation(cs[i])]

EnvironmentFailure(e) == e \in {"ExecutionException", "OSError"}

(* C3: two runs with the same configuration, the names given once as a      *)
(* comma-separated string and once as a native list, in which no step and   *)
(* no file write fails, make the same invocations in the same order with    *)
(* the same parameters, leave the same files and end the same way.          *)
C3_StringEqualsList ==
    (/\ finished # <<>>
     /\ pc \in {"done", "failed"}
     /\ child = ""
     /\ ~EnvironmentFailure(error)
     /\ ~EnvironmentFailure(finished[1].error))
    => /\ Invocations(calls) = Invocations(finished[1].calls)
       /\ fs = finished[1].fs
       /\ pc = finished[1].pc
       /\ error = finished[1].error

C3_Witness ==
    /\ finished # <<>>
    /\ pc = "done"
    /\ finished[1].pc = "done"
    /\ finished[1].config.main.execute_steps = StrSel(<<"random_forest", Sep, "download">>)
    /\ config.main.execute_steps = ListSel(<<"random_forest", "download">>)
    /\ CallSteps = <<"download", "random_forest">>

\* the configuration file could not be opened or written
WriteFailed == error = "OSError"

(* C4, as stated: when the training-config file cannot be written, no step  *)
(* has been invoked.                                                        *)
C4_NoStepBeforeWriteFailure == WriteFailed => calls = <<>>

(* C4, amended: when the training-config file cannot be written, go() ends  *)
(* with that error before the random_forest sub-process is launched:        *)
(* neither random_forest nor evaluate is invoked, while every selected step *)
(* that precedes random_forest in the fixed order has been invoked once and *)
(* has completed.                                                           *)
C4_WriteFailureStopsBeforeTraining ==
    WriteFailed =>
        /\ Terminated
        /\ Requested("random_forest")
        /\ RanUpTo("random_forest")
        /\ exits = Len(calls)

C4_Witness ==
    /\ WriteFailed
    /\ pc = "failed"
    /\ config.main.execute_steps = StrSel(<<"random_forest", Sep, "segregate">>)
    /\ CallSteps = <<"segregate">>

\* the union of what the calls cs produced
ProducedBy(cs) == UNION {Produces(cs[i]) : i \in 1..Len(cs)}

ConfiguredEnv ==
    [WANDB_PROJECT |-> config.main.project_name.s,
     WANDB_RUN_GROUP |-> config.main.experiment_name.s]

(* C5: when an invoked step fails, go() has ended with that failure: it     *)
(* does nothing more (no later step, no retry: the failed step is the last  *)
(* invocation and was invoked once), and what the completed steps left is   *)
(* still there: their invocations and artifacts, the two environment        *)
(* variables, and a training-config file already written.                   *)
C5_StepFailureAborts ==
    error = "ExecutionException" =>
        /\ Terminated
        /\ calls # <<>>
        /\ exits = Len(calls)
        /\ \A n \in Steps : Count(n) <= 1
        /\ RanThrough(calls[Len(calls)].step)
        /\ artifacts = ProducedBy(SubSeq(calls, 1, Len(calls) - 1))
        /\ environ = ConfiguredEnv
        /\ file_writes = 1 =>
              fs[model_config] = to_yaml(config.random_forest_pipeline)

C5_Witness ==
    /\ error = "ExecutionException"
    /\ pc = "failed"
    /\ CallSteps = <<"random_forest">>
    /\ model_config \in DOMAIN fs
    /\ Requested("evaluate")

(* C6: whenever random_forest is invoked, the training section has been     *)
(* written to random_forest_config.yml: the file exists at that moment, its *)
(* content parses back to config["random_forest_pipeline"], and the step    *)
(* receives that file's path as model_config; the file is written at most   *)
(* once per run, and never in a run whose selector lacks random_forest.     *)
C6_ConfigFileRoundTrips ==
    /\ \A i \in 1..Len(calls) :
         calls[i].step = "random_forest" =>
            /\ calls[i].parameters.model_config.s \in DOMAIN calls[i].files
            /\ calls[i].parameters.model_config.s = "/repo/outputs/run/random_forest_config.yml"
            /\ safe_load(calls[i].files[calls[i].parameters.model_config.s])
                 = config.random_forest_pipeline
    /\ file_writes <= 1
    /\ ~Requested("random_forest") => file_writes = 0 /\ DOMAIN fs = {}

C6_Witness ==
    /\ child = "random_forest"
    /\ config.random_forest_pipeline = TrainB
    /\ fs[model_config] # <<>>

(* C7: at every step invocation the two environment variables hold the     *)
(* configured project and experiment names, each has been written exactly   *)
(* once by then (and by the time go() reaches the step blocks), and neither *)
(* is ever written twice.                                                   *)
C7_EnvironmentSetOnce ==
    /\ \A v \in DOMAIN env_writes : env_writes[v] <= 1
    /\ \A i \in 1..Len(calls) : calls[i].env = ConfiguredEnv
    /\ (calls # <<>> \/ pc \in Steps \cup {"random_forest_run", "done"}) =>
          /\ \A v \in DOMAIN env_writes : env_writes[v] = 1
          /\ environ = ConfiguredEnv

C7_Witness ==
    /\ Len(calls) = 2
    /\ config.main.project_name = StrV("exercise")
    /\ calls[2].env = [WANDB_PROJECT |-> "exercise", WANDB_RUN_GROUP |-> "prod"]

ConfigurationError == error \in {"KeyError", "AssertionError"}

(* C8, as stated: when go() ends with a configuration error, no step has    *)
(* been invoked.                                                            *)
C8_NoStepBeforeConfigError == ConfigurationError => calls = <<>>

(* C8, amended: a configuration error ends go() without recovery.  A        *)
(* selector that is neither a string nor a list, or a missing key of the    *)
(* main section read before the steps, ends it before any step is invoked.  *)
(* A missing key needed by a selected step ends it when go() reaches that   *)
(* step: that step and the later ones are never invoked, the selected steps *)
(* before it have been invoked.  No step is ever invoked with a key it      *)
(* needs missing.                                                           *)
C8_ConfigErrorAtFirstUse ==
    /\ ConfigurationError => Terminated /\ exits = Len(calls)
    /\ error = "AssertionError" => calls = <<>>
    /\ error = "KeyError" =>
          \/ /\ calls = <<>>
             /\ \E k \in {"project_name", "experiment_name", "execute_steps"} :
                    Missing(<<"main", k>>)
          \/ \E f \in Steps :
                /\ Requested(f)
                /\ \E path \in Needs(f) : Missing(path)
                /\ RanUpTo(f)
    /\ \A i \in 1..Len(calls) : \A path \in Needs(calls[i].step) : ~Missing(path)

C8_Witness ==
    /\ error = "KeyError"
    /\ pc = "failed"
    /\ Missing(<<"data", "ks_alpha">>)
    /\ CallSteps = <<"download">>
    /\ Requested("check_data")

(* C9: whenever segregate is invoked, its parameters are test_size =         *)
(* data.test_size, stratify = data.stratify, random_state =                  *)
(* random_forest_pipeline.random_forest.random_state, input_artifact =       *)
(* "preprocessed_data.csv:latest" and artifact_root = "data".                *)
C9_SegregateParameters ==
    \A i \in 1..Len(calls) :
        calls[i].step = "segregate" =>
            /\ calls[i].parameters.test_size = GetPath(config, <<"data", "test_size">>)
            /\ calls[i].parameters.stratify = GetPath(config, <<"data", "stratify">>)
            /\ calls[i].parameters.random_state
                 = GetPath(config, <<"random_forest_pipeline", "random_forest",
                                    "random_state">>)
            /\ calls[i].parameters.input_artifact = StrV("preprocessed_data.csv:latest")
            /\ calls[i].parameters.artifact_root = StrV("data")

C9_Witness ==
    /\ child = "segregate"
    /\ config.data.test_size = FloatV(20)
    /\ config.data.stratify = StrV("genre")
    /\ calls[Len(calls)].parameters.random_state = IntV(0)
    /\ GetPath(config, <<"main", "random_seed">>) = IntV(7)
    /\ calls[Len(calls)].parameters.test_size = FloatV(20)

\* the input artifact references a step receives that do not come from the
\* configured reference dataset
InputRefs(call) ==
    CASE call.step = "download" -> {}
      [] call.step = "preprocess" -> {call.parameters.input_artifact}
      [] call.step = "check_data" -> {call.parameters.sample_artifact}
      [] call.step = "segregate" -> {call.parameters.input_artifact}
      [] call.step = "random_forest" -> {call.parameters.train_data}
      [] call.step = "evaluate" -> {call.parameters.model_export, call.parameters.test_data}

AllRequested == \A n \in Steps : Requested(n)

(* C10: in a run that selects all six steps, every such input reference of  *)
(* every invocation is "<name>:latest" for an artifact <name> produced by a *)
(* step that completed earlier in the same run.                             *)
C10_InputsProducedEarlier ==
    AllRequested =>
        \A i \in 1..Len(calls) :
            \A ref \in InputRefs(calls[i]) :
                \E name \in calls[i].avail : ref = StrV(name \o ":latest")

C10_Witness ==
    /\ AllRequested
    /\ pc = "done"
    /\ Len(calls) = 6
    /\ calls[6].parameters.model_export = StrV("42:latest")
    /\ calls[6].avail = {"raw_data.parquet", "preprocessed_data.csv",
                         "data_train.csv", "data_test.csv", "42"}

====
